---- MODULE Spec2Model ----
(***************************************************************************)
(* A model of i_can_not_speak: the TalkAsMicService facade (service.py)    *)
(* and the SAPI backend adapter (sapi.py).                                 *)
(*                                                                         *)
(* Optional[int] values are sequences of length at most one: None is <<>>  *)
(* and the index i is <<i>>.                                               *)
(***************************************************************************)
EXTENDS Integers, Sequences, FiniteSets, TLC

VARIABLES
    \* ---- TalkAsMicService (service.py) ----
    device_vb,        \* self.device_vb: Optional[int]
    device_monitor,   \* self.device_monitor: Optional[int]
    play_lock,        \* self._play_lock: None when free, <<c>> when held by c
    pc,               \* per speak() caller: its position in speak()
    unsetAtCall,      \* history: device_vb was None when the tracked speak() was entered
    vbChecked,        \* per caller: the device_vb that passed the check of line 92
    monBranch,        \* per caller: the branch of line 100 was taken
    threads,          \* per caller: the local list `threads` (one record per runner)
    results,          \* per caller: the local list `results` the runners append to
    outcome,          \* per caller: how speak() ended
    errors,           \* per caller: the list `errors` of the raised RuntimeError
    \* ---- _com_scope (sapi.py) ----
    comCount,         \* per thread: _COM_STATE.count (thread-local, 0 when unset)
    comStack,         \* per thread: the active _com_scope frames, the branch each took
    comInit,          \* per thread: CoInitialize() calls made
    comUninit,        \* per thread: CoUninitialize() calls made
    \* ---- parameters (service.py) and SapiSynth.synth_pcm16 (sapi.py) ----
    rate,             \* self.rate
    volume,           \* self.volume
    synPc,            \* position of the synth_pcm16 call
    synArgs,          \* its arguments: rate, volume, voice_token_id
    tmpExists,        \* the file at tmp_path exists
    streamOpen,       \* the SpFileStream holds tmp_path open
    synPending,       \* the return or exception on its way out of the try block
    synOut,           \* how the call ended
    engineRate,       \* voice.Rate as last assigned (None before)
    engineVolume,     \* voice.Volume as last assigned (None before)
    \* ---- construction (service.py, __init__) ----
    devices,          \* sd.query_devices(): the device table
    sdDefault,        \* sd.default.device
    built,            \* __init__ has run
    \* ---- synthesize (service.py) ----
    pcm,              \* the buffer synth_pcm16 returned, samples in hundredths
    normPc,           \* position of the synthesize call
    normOut,          \* what synthesize returned: the buffer, or the error raised
    \* ---- the window (app.py) ----
    text_input,       \* text_input.value
    speak_disabled,   \* speak_button.disabled
    busy_visible,     \* busy_ring.visible
    status_text,      \* status_text.value: "" or the kind of error shown
    snack_open,       \* page.snack_bar.open
    log_len,          \* len(log_list.controls)
    uiTasks           \* the speak_task coroutines in flight, the position of each

svcVars == <<device_vb, device_monitor, play_lock, pc, unsetAtCall, vbChecked,
             monBranch, threads, results, outcome, errors>>

comVars == <<comCount, comStack, comInit, comUninit>>

parVars == <<rate, volume>>

synVars == <<synPc, synArgs, tmpExists, streamOpen, synPending, synOut, engineRate,
             engineVolume>>

pickVars == <<devices, sdDefault, built>>

normVars == <<pcm, normPc, normOut>>

uiVars == <<text_input, speak_disabled, busy_visible, status_text, snack_open, log_len,
            uiTasks>>

vars == <<svcVars, comVars, parVars, synVars, pickVars, normVars, uiVars>>

\* What the actions of one component leave alone
nonSvc == <<comVars, parVars, synVars, pickVars, normVars, uiVars>>
nonCom == <<svcVars, parVars, synVars, pickVars, normVars, uiVars>>
nonPar == <<svcVars, comVars, synVars, pickVars, normVars, uiVars>>
nonSyn == <<svcVars, parVars, pickVars, normVars, uiVars>>
nonNorm == <<svcVars, comVars, parVars, synVars, pickVars, uiVars>>
nonUi == <<svcVars, comVars, parVars, synVars, pickVars, normVars>>

-----------------------------------------------------------------------------
(* Bounds and input sets *)

NumCallers == 2

Callers == 1..NumCallers

\* The output device indices: one for each role, primary and monitor.
Devices == {1, 2}

None == <<>>
Some(x) == <<x>>
OptDevices == {None} \cup {Some(d) : d \in Devices}

\* Texts handed to speak(): empty, whitespace only, plain, padded.
Texts == {<<>>, <<" ">>, <<"h", "i">>, <<" ", "h", " ">>}

-----------------------------------------------------------------------------
(* str.strip(): drop leading and trailing whitespace *)

RECURSIVE LStrip(_)
LStrip(s) == IF s # <<>> /\ Head(s) = " " THEN LStrip(Tail(s)) ELSE s

RECURSIVE RStrip(_)
RStrip(s) == IF s # <<>> /\ s[Len(s)] = " " THEN RStrip(SubSeq(s, 1, Len(s) - 1)) ELSE s

Strip(s) == RStrip(LStrip(s))

-----------------------------------------------------------------------------
(* TalkAsMicService.__init__ *)

NewThread(dev) == [dev |-> dev, st |-> "started", err |-> "None"]

InitSvc ==
    /\ device_vb \in OptDevices
    /\ device_monitor = None
    /\ play_lock = None
    /\ pc = [c \in Callers |-> "idle"]
    /\ unsetAtCall = FALSE
    /\ vbChecked = [c \in Callers |-> None]
    /\ monBranch = [c \in Callers |-> FALSE]
    /\ threads = [c \in Callers |-> <<>>]
    /\ results = [c \in Callers |-> <<>>]
    /\ outcome = [c \in Callers |-> "none"]
    /\ errors = [c \in Callers |-> <<>>]

-----------------------------------------------------------------------------
(* Setters, called from the UI thread at any time *)

set_virtual_mic_device(d) ==
    /\ device_vb' = d
    /\ UNCHANGED <<device_monitor, play_lock, pc, unsetAtCall, vbChecked, monBranch,
                   threads, results, outcome, errors>>
    /\ UNCHANGED nonSvc

set_monitor_device(d) ==
    /\ device_monitor' = d
    /\ UNCHANGED <<device_vb, play_lock, pc, unsetAtCall, vbChecked, monBranch,
                   threads, results, outcome, errors>>
    /\ UNCHANGED nonSvc

-----------------------------------------------------------------------------
(* speak(): synthesize, check the device, then play under the lock *)

Raise(c, what) ==
    /\ pc' = [pc EXCEPT ![c] = "done"]
    /\ outcome' = [outcome EXCEPT ![c] = what]

\* speak(text) is entered and synthesize() called.  synth_pcm16 returns an empty
\* buffer for blank text without reaching the engine, and synthesize() raises.
SpeakEnter(c, text) ==
    /\ pc[c] = "idle"
    /\ IF Strip(text) = <<>>
         THEN Raise(c, "EmptyAudio")
         ELSE /\ pc' = [pc EXCEPT ![c] = "synth"]
              /\ UNCHANGED outcome
    /\ UNCHANGED <<device_vb, device_monitor, play_lock, vbChecked, monBranch,
                   threads, results, errors>>
    /\ UNCHANGED nonSvc

SpeakCall(c, text) == SpeakEnter(c, text) /\ UNCHANGED unsetAtCall

\* The same call, with the device selection at entry recorded.
SpeakCallTracked(c, text) == SpeakEnter(c, text) /\ unsetAtCall' = (device_vb = None)

\* The engine returns: audio, no frames, or an exception.
SynthOutcomes == {"audio", "empty", "error"}

SynthReturn(c, out) ==
    /\ pc[c] = "synth"
    /\ CASE out = "audio" -> /\ pc' = [pc EXCEPT ![c] = "check_vb"]
                             /\ UNCHANGED outcome
         [] out = "empty" -> Raise(c, "EmptyAudio")
         [] OTHER         -> Raise(c, "SynthFailed")
    /\ UNCHANGED <<device_vb, device_monitor, play_lock, unsetAtCall, vbChecked,
                   monBranch, threads, results, errors>>
    /\ UNCHANGED nonSvc

DeviceUnset_Never == FALSE

\* line 92: self.device_vb is None
DeviceUnset == device_vb = None

\* lines 92-93: if self.device_vb is None: raise
CheckDevice(c) ==
    /\ pc[c] = "check_vb"
    /\ IF DeviceUnset
         THEN /\ Raise(c, "NoDevice")
              /\ UNCHANGED vbChecked
         ELSE /\ pc' = [pc EXCEPT ![c] = "lock"]
              /\ vbChecked' = [vbChecked EXCEPT ![c] = device_vb]
              /\ UNCHANGED outcome
    /\ UNCHANGED <<device_vb, device_monitor, play_lock, unsetAtCall, monBranch,
                   threads, results, errors>>
    /\ UNCHANGED nonSvc

LockFree_NoCheck == TRUE

\* threading.Lock: acquire blocks while another caller holds it
LockFree == play_lock = None

\* line 95: with self._play_lock
AcquireLock(c) ==
    /\ pc[c] = "lock"
    /\ LockFree
    /\ play_lock' = Some(c)
    /\ pc' = [pc EXCEPT ![c] = "start_vb"]
    /\ UNCHANGED <<device_vb, device_monitor, unsetAtCall, vbChecked, monBranch,
                   threads, results, outcome, errors>>
    /\ UNCHANGED nonSvc

\* line 99: the device handed to the primary playback is self.device_vb, read again
PrimaryDevice(c) == device_vb

\* line 99: threads.append(self._play_async(pcm, samplerate, self.device_vb, results))
StartPrimary(c) ==
    /\ pc[c] = "start_vb"
    /\ threads' = [threads EXCEPT ![c] = Append(@, NewThread(PrimaryDevice(c)))]
    /\ vbChecked' = [vbChecked EXCEPT ![c] = None]
    /\ pc' = [pc EXCEPT ![c] = "mon_check"]
    /\ UNCHANGED <<device_vb, device_monitor, play_lock, unsetAtCall, monBranch,
                   results, outcome, errors>>
    /\ UNCHANGED nonSvc

\* line 100: if self.device_monitor is not None
CheckMonitor(c) ==
    /\ pc[c] = "mon_check"
    /\ monBranch' = [monBranch EXCEPT ![c] = (device_monitor # None)]
    /\ pc' = [pc EXCEPT ![c] = IF device_monitor # None THEN "start_mon" ELSE "join"]
    /\ UNCHANGED <<device_vb, device_monitor, play_lock, unsetAtCall, vbChecked,
                   threads, results, outcome, errors>>
    /\ UNCHANGED nonSvc

\* lines 101-103: the monitor playback, self.device_monitor read again
StartMonitor(c) ==
    /\ pc[c] = "start_mon"
    /\ threads' = [threads EXCEPT ![c] = Append(@, NewThread(device_monitor))]
    /\ pc' = [pc EXCEPT ![c] = "join"]
    /\ UNCHANGED <<device_vb, device_monitor, play_lock, unsetAtCall, vbChecked,
                   monBranch, results, outcome, errors>>
    /\ UNCHANGED nonSvc

-----------------------------------------------------------------------------
(* _play_async.runner: one thread per playback *)

RunnerResult_Swallow(t, e) == <<t.dev, "None">>

\* line 136: results.append((device_index, error))
RunnerResult(t, e) == <<t.dev, e>>

RunnerEnd(c, i, e) ==
    /\ threads' = [threads EXCEPT ![c][i] = [@ EXCEPT !.st = "closed", !.err = e]]
    /\ results' = [results EXCEPT ![c] = Append(@, RunnerResult(threads[c][i], e))]

\* line 126: sd.OutputStream(...) opens the stream, or raises
RunnerOpen(c, i, ok) ==
    /\ i \in DOMAIN threads[c]
    /\ threads[c][i].st = "started"
    /\ IF ok
         THEN /\ threads' = [threads EXCEPT ![c][i].st = "open"]
              /\ UNCHANGED results
         ELSE RunnerEnd(c, i, "OpenErr")
    /\ UNCHANGED <<device_vb, device_monitor, play_lock, pc, unsetAtCall, vbChecked,
                   monBranch, outcome, errors>>
    /\ UNCHANGED nonSvc

\* lines 131-136: stream.write(data) writes the whole buffer or raises; either way
\* the with-statement closes the stream, and the finally clause appends the result
RunnerWrite(c, i, ok) ==
    /\ i \in DOMAIN threads[c]
    /\ threads[c][i].st = "open"
    /\ RunnerEnd(c, i, IF ok THEN "None" ELSE "WriteErr")
    /\ UNCHANGED <<device_vb, device_monitor, play_lock, pc, unsetAtCall, vbChecked,
                   monBranch, outcome, errors>>
    /\ UNCHANGED nonSvc

-----------------------------------------------------------------------------
(* speak(): join, aggregate, release *)

JoinTargets_FirstOnly(ths) == {1}

\* lines 105-106: for thread in threads: thread.join()
JoinTargets(ths) == DOMAIN ths

RECURSIVE FailedOf(_)
\* line 108: [f"#{idx}: {err}" for idx, err in results if err is not None]
FailedOf(rs) ==
    IF rs = <<>> THEN <<>>
    ELSE IF Head(rs)[2] # "None" THEN <<Head(rs)>> \o FailedOf(Tail(rs))
    ELSE FailedOf(Tail(rs))

\* lines 105-108: the joins return and the failures are collected
Join(c) ==
    /\ pc[c] = "join"
    /\ \A i \in JoinTargets(threads[c]) : threads[c][i].st = "closed"
    /\ errors' = [errors EXCEPT ![c] = FailedOf(results[c])]
    /\ pc' = [pc EXCEPT ![c] = "report"]
    /\ UNCHANGED <<device_vb, device_monitor, play_lock, unsetAtCall, vbChecked,
                   monBranch, threads, results, outcome>>
    /\ UNCHANGED nonSvc

\* lines 109-112: raise if there are errors; leaving the with-block releases the
\* lock, and the locals of the call are gone
Report(c) ==
    /\ pc[c] = "report"
    /\ Raise(c, IF errors[c] # <<>> THEN "PlaybackFailed" ELSE "ok")
    /\ play_lock' = None
    /\ monBranch' = [monBranch EXCEPT ![c] = FALSE]
    /\ threads' = [threads EXCEPT ![c] = <<>>]
    /\ results' = [results EXCEPT ![c] = <<>>]
    /\ errors' = [errors EXCEPT ![c] = <<>>]
    /\ UNCHANGED <<device_vb, device_monitor, unsetAtCall, vbChecked>>
    /\ UNCHANGED nonSvc

\* speak() has returned or raised; the caller may call it again.
Return(c) ==
    /\ pc[c] = "done"
    /\ pc' = [pc EXCEPT ![c] = "idle"]
    /\ outcome' = [outcome EXCEPT ![c] = "none"]
    /\ UNCHANGED <<device_vb, device_monitor, play_lock, unsetAtCall, vbChecked,
                   monBranch, threads, results, errors>>
    /\ UNCHANGED nonSvc

-----------------------------------------------------------------------------
(* _com_scope: per-thread reference counting of COM initialization *)

NumComThreads == 2
MaxDepth == 3
MaxInits == 3

ComThreads == 1..NumComThreads

InitCom ==
    /\ comCount = [t \in ComThreads |-> 0]
    /\ comStack = [t \in ComThreads |-> <<>>]
    /\ comInit = [t \in ComThreads |-> 0]
    /\ comUninit = [t \in ComThreads |-> 0]

\* lines 222-232: entering a `with _com_scope()` block on thread t
ComEnter(t) ==
    IF comCount[t] > 0
      THEN /\ comCount' = [comCount EXCEPT ![t] = @ + 1]
           /\ comStack' = [comStack EXCEPT ![t] = Append(@, "nested")]
           /\ UNCHANGED <<comInit, comUninit>>
      ELSE /\ comInit' = [comInit EXCEPT ![t] = @ + 1]
           /\ comCount' = [comCount EXCEPT ![t] = 1]
           /\ comStack' = [comStack EXCEPT ![t] = Append(@, "outer")]
           /\ UNCHANGED comUninit

CleanupRuns_OnReturnOnly(how) == how = "return"

\* lines 227 and 235: the cleanup is a finally clause, it runs on every exit
CleanupRuns(how) == TRUE

Pop(s) == SubSeq(s, 1, Len(s) - 1)

\* lines 225-229 and 233-237: leaving the innermost block of thread t, by
\* falling off its end ("return") or by an exception ("raise")
ComExit(t, how) ==
    /\ comStack' = [comStack EXCEPT ![t] = Pop(@)]
    /\ IF ~CleanupRuns(how)
         THEN UNCHANGED <<comCount, comInit, comUninit>>
         ELSE IF comStack[t][Len(comStack[t])] = "nested"
           THEN /\ comCount' = [comCount EXCEPT ![t] = @ - 1]
                /\ UNCHANGED <<comInit, comUninit>>
           ELSE /\ comCount' = [comCount EXCEPT ![t] = 0]
                /\ comUninit' = [comUninit EXCEPT ![t] = @ + 1]
                /\ UNCHANGED comInit

ExitKinds == {"return", "raise"}

\* A thread opens a protected region, nested in those it has open
EnterRegion(t) ==
    /\ Len(comStack[t]) < MaxDepth
    /\ comCount[t] > 0 \/ comInit[t] < MaxInits
    /\ ComEnter(t)
    /\ UNCHANGED nonCom

\* A thread leaves its innermost protected region
ExitRegion(t, how) ==
    /\ comStack[t] # <<>>
    /\ ComExit(t, how)
    /\ UNCHANGED nonCom

NextCom ==
    \/ \E t \in ComThreads : EnterRegion(t)
    \/ \E t \in ComThreads, how \in ExitKinds : ExitRegion(t, how)

\* C6: on every thread the count is the number of open regions, exactly one
\* CoInitialize is outstanding while a region is open and none otherwise (so it
\* is called on the outermost entry only, and CoUninitialize on the outermost
\* exit only), whatever the other threads do and however the regions are left.
C6_ComRefCounted ==
    \A t \in ComThreads :
        /\ comCount[t] = Len(comStack[t])
        /\ comInit[t] - comUninit[t] = IF comStack[t] = <<>> THEN 0 ELSE 1
        /\ \A k \in DOMAIN comStack[t] :
              comStack[t][k] = IF k = 1 THEN "outer" ELSE "nested"

C6_Witness ==
    \E t, u \in ComThreads :
        /\ t # u
        /\ Len(comStack[t]) >= 2
        /\ comInit[t] = 2
        /\ comUninit[t] = 1
        /\ comStack[u] = <<>>
        /\ comUninit[u] = 1

-----------------------------------------------------------------------------
(* Rate and volume: the setters of the facade *)

Max2(a, b) == IF a >= b THEN a ELSE b
Min2(a, b) == IF a <= b THEN a ELSE b

RateInputs == {-999, -11, -10, -3, 0, 10, 11, 999}
VolumeInputs == {-5, -1, 0, 50, 100, 101, 999}

InitPar ==
    /\ rate = 0
    /\ volume = 100

ClampRate_NoUpper(v) == Max2(-10, v)

\* service.py line 73: max(-10, min(10, int(value)))
ClampRate(v) == Max2(-10, Min2(10, v))

\* service.py line 76: max(0, min(100, int(value)))
ClampVolume(v) == Max2(0, Min2(100, v))

set_rate(v) ==
    /\ rate' = ClampRate(v)
    /\ UNCHANGED <<volume, nonPar>>

set_volume(v) ==
    /\ volume' = ClampVolume(v)
    /\ UNCHANGED <<rate, nonPar>>

-----------------------------------------------------------------------------
(* SapiSynth.synth_pcm16, called by synthesize() on thread SynThread *)

SynThread == 1

VoiceIds == {"None", "installed", "unknown"}

\* sapi.py line 175: int(max(lo, min(hi, value)))
_clamp(value, lo, hi) == Max2(lo, Min2(hi, value))

InitSyn ==
    /\ synPc = "idle"
    /\ synArgs = [rate |-> 0, volume |-> 100, voice |-> "None"]
    /\ tmpExists = FALSE
    /\ streamOpen = FALSE
    /\ synPending = "none"
    /\ synOut = "none"
    /\ engineRate = None
    /\ engineVolume = None

\* An exception inside the `with _com_scope()` block: the scope is left, the
\* exception is on its way to the finally clause of line 116
SynRaiseInScope(what) ==
    /\ ComExit(SynThread, "raise")
    /\ synPending' = what
    /\ synPc' = "cleanup"

\* service.py lines 80-82, sapi.py lines 78-83: the call with the current rate,
\* volume and voice; blank text returns an empty buffer at once, any other text
\* gets a temporary file
synth_pcm16(text, voice) ==
    /\ synPc = "idle"
    /\ synArgs' = [rate |-> rate, volume |-> volume, voice |-> voice]
    /\ IF Strip(text) = <<>>
         THEN /\ synPc' = "done"
              /\ synOut' = "empty"
              /\ UNCHANGED tmpExists
         ELSE /\ synPc' = "created"
              /\ synOut' = "none"
              /\ tmpExists' = TRUE
    /\ synPending' = "none"
    /\ UNCHANGED <<streamOpen, engineRate, engineVolume, comVars, nonSyn>>

\* line 85: with _com_scope()
SynEnterScope ==
    /\ synPc = "created"
    /\ comCount[SynThread] > 0 \/ comInit[SynThread] < MaxInits
    /\ ComEnter(SynThread)
    /\ synPc' = "scope"
    /\ UNCHANGED <<synArgs, tmpExists, streamOpen, synPending, synOut, engineRate,
                   engineVolume, nonSyn>>

\* line 86: _create_voice; selecting a voice by id may fail
SynCreateVoice(ok) ==
    /\ synPc = "scope"
    /\ ok \/ synArgs.voice # "None"
    /\ IF ok
         THEN /\ synPc' = "voice"
              /\ UNCHANGED <<synPending, comVars>>
         ELSE SynRaiseInScope("VoiceSelectionFailed")
    /\ UNCHANGED <<synArgs, tmpExists, streamOpen, synOut, engineRate, engineVolume,
                   nonSyn>>

\* lines 87-95: no installed voice is an error; else rate and volume are
\* clamped and assigned to the engine
SynConfigure(installed) ==
    /\ synPc = "voice"
    /\ IF installed
         THEN /\ synPc' = "configured"
              /\ engineRate' = Some(_clamp(synArgs.rate, -10, 10))
              /\ engineVolume' = Some(_clamp(synArgs.volume, 0, 100))
              /\ UNCHANGED <<synPending, comVars>>
         ELSE /\ SynRaiseInScope("NoVoicesInstalled")
              /\ UNCHANGED <<engineRate, engineVolume>>
    /\ UNCHANGED <<synArgs, tmpExists, streamOpen, synOut, nonSyn>>

\* lines 97-101: the file stream is created and opened for writing on tmp_path
SynOpenStream(ok) ==
    /\ synPc = "configured"
    /\ IF ok
         THEN /\ synPc' = "open"
              /\ streamOpen' = TRUE
              /\ tmpExists' = TRUE
              /\ UNCHANGED <<synPending, comVars>>
         ELSE /\ SynRaiseInScope("EngineFailed")
              /\ UNCHANGED <<streamOpen, tmpExists>>
    /\ UNCHANGED <<synArgs, synOut, engineRate, engineVolume, nonSyn>>

\* lines 103-104: rendering; when voice.Speak raises, line 105 is skipped and
\* the stream keeps the file open
SynSpeak(ok) ==
    /\ synPc = "open"
    /\ IF ok
         THEN /\ synPc' = "spoken"
              /\ UNCHANGED <<synPending, comVars>>
         ELSE SynRaiseInScope("EngineFailed")
    /\ UNCHANGED <<synArgs, tmpExists, streamOpen, synOut, engineRate, engineVolume,
                   nonSyn>>

\* lines 105-106 and the end of the with block
SynCloseStream ==
    /\ synPc = "spoken"
    /\ streamOpen' = FALSE
    /\ ComExit(SynThread, "return")
    /\ synPc' = "read"
    /\ UNCHANGED <<synArgs, tmpExists, synPending, synOut, engineRate, engineVolume,
                   nonSyn>>

\* lines 108-115: the file is read back; a missing or malformed file raises
SynRead(ok) ==
    /\ synPc = "read"
    /\ ok => tmpExists
    /\ synPending' = IF ok THEN "audio" ELSE "ReadFailed"
    /\ synPc' = "cleanup"
    /\ UNCHANGED <<synArgs, tmpExists, streamOpen, synOut, engineRate, engineVolume,
                   comVars, nonSyn>>

\* What os.remove(tmp_path) of line 118 can do: FileNotFoundError when the file
\* is gone; on Windows a file that another object still holds open cannot be
\* deleted (PermissionError), unless it was opened with delete sharing
RemoveOutcomes ==
    IF ~tmpExists THEN {"gone"}
    ELSE IF streamOpen THEN {"removed", "in_use"}
    ELSE {"removed"}

\* lines 116-120: the finally clause; only FileNotFoundError is ignored, any
\* other error of os.remove replaces the pending result
SynCleanup(rm) ==
    /\ synPc = "cleanup"
    /\ rm \in RemoveOutcomes
    /\ tmpExists' = (rm = "in_use")
    /\ synOut' = IF rm = "in_use" THEN "RemoveFailed" ELSE synPending
    /\ synPending' = "none"
    /\ synPc' = "done"
    /\ UNCHANGED <<synArgs, streamOpen, engineRate, engineVolume, comVars, nonSyn>>

\* Something else deletes the file (a cleaner of the temp directory)
ExternalRemove ==
    /\ synPc \in {"created", "scope", "voice", "configured", "read", "cleanup"}
    /\ tmpExists
    /\ ~streamOpen
    /\ tmpExists' = FALSE
    /\ UNCHANGED <<synPc, synArgs, streamOpen, synPending, synOut, engineRate,
                   engineVolume, comVars, nonSyn>>

\* The caller has the result; the objects of the call are released, and the
\* next call takes a new file name from mkstemp
SynDone ==
    /\ synPc = "done"
    /\ synPc' = "idle"
    /\ synOut' = "none"
    /\ streamOpen' = FALSE
    /\ tmpExists' = FALSE
    /\ engineRate' = None
    /\ engineVolume' = None
    /\ UNCHANGED <<synArgs, synPending, comVars, nonSyn>>

NextSyn ==
    \/ \E v \in RateInputs : set_rate(v)
    \/ \E v \in VolumeInputs : set_volume(v)
    \/ \E text \in Texts, voice \in VoiceIds : synth_pcm16(text, voice)
    \/ SynEnterScope
    \/ \E ok \in BOOLEAN : SynCreateVoice(ok)
    \/ \E installed \in BOOLEAN : SynConfigure(installed)
    \/ \E ok \in BOOLEAN : SynOpenStream(ok)
    \/ \E ok \in BOOLEAN : SynSpeak(ok)
    \/ SynCloseStream
    \/ \E ok \in BOOLEAN : SynRead(ok)
    \/ \E rm \in {"gone", "removed", "in_use"} : SynCleanup(rm)
    \/ ExternalRemove
    \/ SynDone

\* Set when a synthesis call that created a temporary file has ended
SynEndedAfterCreate == synPc = "done" /\ synOut # "empty"

\* C5: every synthesis call that created a temporary file leaves no temporary
\* file behind when it returns or raises, on every exit path, and a failure of
\* the cleanup never becomes the result of the call.
C5_NoTempFileLeft ==
    SynEndedAfterCreate => (~tmpExists /\ synOut # "RemoveFailed")

ExpectedClamp(v, lo, hi) == IF v < lo THEN lo ELSE IF v > hi THEN hi ELSE v

\* C7: set_rate(v) stores v clamped to [-10,10] and set_volume(v) stores v
\* clamped to [0,100]; the stored rate and volume stay in range from the
\* initial state, and the rate and volume the engine is given by a synthesis
\* are in range (and are the stored ones of the call).
C7_ParametersClamped ==
    /\ [](rate \in -10..10 /\ volume \in 0..100)
    /\ [](/\ engineRate # None => engineRate[1] \in -10..10
          /\ engineVolume # None => engineVolume[1] \in 0..100)
    /\ [](synPc \in {"configured", "open", "spoken"} =>
              /\ engineRate = Some(synArgs.rate)
              /\ engineVolume = Some(synArgs.volume))
    /\ [][/\ \A v \in RateInputs : set_rate(v) => rate' = ExpectedClamp(v, -10, 10)
          /\ \A v \in VolumeInputs : set_volume(v) => volume' = ExpectedClamp(v, 0, 100)]_vars

C7_Witness ==
    /\ rate = 10
    /\ volume = 0
    /\ synPc = "configured"
    /\ engineRate = Some(10)
    /\ engineVolume = Some(0)

-----------------------------------------------------------------------------
(* TalkAsMicService.__init__: automatic choice of the primary device *)

MaxTable == 3

Uppers == <<"A", "B", "C", "D", "E", "F", "G", "H", "I", "J", "K", "L", "M",
            "N", "O", "P", "Q", "R", "S", "T", "U", "V", "W", "X", "Y", "Z">>
Lowers == <<"a", "b", "c", "d", "e", "f", "g", "h", "i", "j", "k", "l", "m",
            "n", "o", "p", "q", "r", "s", "t", "u", "v", "w", "x", "y", "z">>

LowerChar(ch) ==
    IF \E i \in DOMAIN Uppers : Uppers[i] = ch
      THEN Lowers[CHOOSE i \in DOMAIN Uppers : Uppers[i] = ch]
      ELSE ch

\* str.lower()
Lower(s) == [i \in DOMAIN s |-> LowerChar(s[i])]

\* the `in` operator of str: sub occurs in s
Contains(sub, s) ==
    \E i \in 0..(Len(s) - Len(sub)) : SubSeq(s, i + 1, i + Len(sub)) = sub

\* service.py line 12
PREFERRED_VB_KEYWORDS ==
    << <<"C", "A", "B", "L", "E", " ", "I", "n", "p", "u", "t">>,
       <<"V", "B", "-", "A", "u", "d", "i", "o">>,
       <<"V", "i", "r", "t", "u", "a", "l", " ", "C", "a", "b", "l", "e">> >>

\* Names a device table may hold: a fragment as written, a fragment in another
\* case inside a longer name, part of a fragment only, no fragment
DeviceNames ==
    { <<"C", "A", "B", "L", "E", " ", "I", "n", "p", "u", "t">>,
      <<"m", "y", " ", "v", "b", "-", "a", "u", "d", "i", "o">>,
      <<"V", "i", "r", "t", "u", "a", "l">>,
      <<"S", "p", "e", "a", "k", "e", "r", "s">> }

DeviceEntries == [name : DeviceNames, max_output_channels : {0, 2}]

Tables == UNION {[1..n -> DeviceEntries] : n \in 0..MaxTable}

\* sd.default.device: the (input, output) pair, as a list, as a tuple, or as
\* the pair object of the sounddevice library, which is neither
DefaultTypes == {"list", "tuple", "pair"}
DefaultItems == {<<-1, -1>>, <<0, 1>>, <<1, 0>>}

InitPick ==
    /\ devices \in Tables
    /\ sdDefault \in [type : DefaultTypes, items : DefaultItems]
    /\ built = FALSE

\* The service is constructed
InitBuilt ==
    /\ devices = <<>>
    /\ sdDefault = [type |-> "pair", items |-> <<-1, -1>>]
    /\ built = TRUE

\* lines 39-45: the output-capable rows of the table, each with its position
\* in the whole table (enumerate counts from 0)
list_output_devices ==
    LET idx == SelectSeq([i \in 1..Len(devices) |-> i],
                         LAMBDA i : devices[i].max_output_channels > 0)
    IN  [k \in 1..Len(idx) |-> [index |-> idx[k] - 1, name |-> devices[idx[k]].name]]

\* line 50: any(kw.lower() in name for kw in keywords), name lower-cased
NameMatches(name, keywords) ==
    \E k \in DOMAIN keywords : Contains(Lower(keywords[k]), Lower(name))

\* lines 48-51: the loop returns at the first device that matches
RECURSIVE FirstMatch(_, _)
FirstMatch(devs, keywords) ==
    IF devs = <<>> THEN None
    ELSE IF NameMatches(Head(devs).name, keywords) THEN Some(Head(devs).index)
    ELSE FirstMatch(Tail(devs), keywords)

\* lines 53-56
DefaultOutput ==
    IF sdDefault.type \in {"list", "tuple"} /\ Len(sdDefault.items) = 2
      THEN Some(sdDefault.items[2])
      ELSE None

\* lines 47-56
_auto_pick_output_device(keywords) ==
    IF FirstMatch(list_output_devices, keywords) # None
      THEN FirstMatch(list_output_devices, keywords)
      ELSE DefaultOutput

\* line 31 of __init__
Construct ==
    /\ ~built
    /\ device_vb' = _auto_pick_output_device(PREFERRED_VB_KEYWORDS)
    /\ built' = TRUE
    /\ UNCHANGED <<device_monitor, play_lock, pc, unsetAtCall, vbChecked, monBranch,
                   threads, results, outcome, errors>>
    /\ UNCHANGED <<devices, sdDefault, comVars, parVars, synVars, normVars, uiVars>>

NextPick == Construct

\* The rows of the table that can play and whose name holds a fragment
MatchingRows ==
    {i \in DOMAIN devices :
        /\ devices[i].max_output_channels > 0
        /\ \E k \in DOMAIN PREFERRED_VB_KEYWORDS :
              Contains(Lower(PREFERRED_VB_KEYWORDS[k]), Lower(devices[i].name))}

\* C8: after construction the primary device is the index of the first
\* output-capable device, in enumeration order, whose name contains one of the
\* virtual-cable fragments whatever the case; if no name matches it is the
\* system default output device index.
C8_AutoPickOrDefault ==
    built =>
        device_vb = IF MatchingRows # {}
                      THEN Some((CHOOSE i \in MatchingRows :
                                    \A j \in MatchingRows : i <= j) - 1)
                      ELSE Some(sdDefault.items[2])

-----------------------------------------------------------------------------
(* TalkAsMicService.synthesize: peak normalization                         *)
(*                                                                         *)
(* A sample of the input buffer is an integer number of hundredths.  A    *)
(* sample of the returned buffer is num/den hundredths, moved by `ulp`    *)
(* float32 rounding steps: the buffer is a float32 array, so the product   *)
(* of line 87 is the exact product rounded to a float32.                   *)

MaxBuf == 2

\* line 86: the literal 0.99, in hundredths
PeakLimit == 99

\* -1.0, -0.99, 0, 0.5 and 1.5
Samples == {-100, -99, 0, 50, 150}

Buffers == UNION {[1..n -> Samples] : n \in 0..MaxBuf}

Abs(x) == IF x < 0 THEN -x ELSE x

InitNorm ==
    /\ pcm = <<>>
    /\ normPc = "idle"
    /\ normOut = [kind |-> "none"]

\* line 85: np.max(np.abs(pcm))
RECURSIVE Peak(_)
Peak(buf) ==
    IF Len(buf) = 1 THEN Abs(buf[1])
    ELSE Max2(Abs(Head(buf)), Peak(Tail(buf)))

ScaleFactor_Unit(peak) == [num |-> 1, den |-> 1]

\* line 87: 0.99 / peak
ScaleFactor(peak) == [num |-> PeakLimit, den |-> peak]

\* A sample as it is
Exact(s) == [num |-> s, den |-> 1, ulp |-> 0]

\* line 87: one float32 product, the exact product moved by r rounding steps
Scaled(s, f, r) == [num |-> s * f.num, den |-> f.den, ulp |-> r]

\* The rounding of the products of a buffer: at most one step either way for
\* each sample, none for a zero sample
Roundings(buf) ==
    {r \in [DOMAIN buf -> {-1, 0, 1}] : \A i \in DOMAIN buf : buf[i] = 0 => r[i] = 0}

\* lines 80-82: synth_pcm16 returns a buffer
SynthReturns(buf) ==
    /\ normPc = "idle"
    /\ pcm' = buf
    /\ normPc' = "synthesized"
    /\ normOut' = [kind |-> "none"]
    /\ UNCHANGED nonNorm

\* lines 83-88
Normalize(r) ==
    /\ normPc = "synthesized"
    /\ normPc' = "returned"
    /\ IF pcm = <<>>
         THEN normOut' = [kind |-> "EmptyAudio"]
         ELSE /\ r \in Roundings(pcm)
              /\ normOut' =
                   [kind |-> "ok",
                    buf |-> IF Peak(pcm) > PeakLimit
                              THEN [i \in DOMAIN pcm |->
                                       Scaled(pcm[i], ScaleFactor(Peak(pcm)), r[i])]
                              ELSE [i \in DOMAIN pcm |-> Exact(pcm[i])]]
    /\ UNCHANGED <<pcm, nonNorm>>

\* The caller is done with the buffer
NormReturn ==
    /\ normPc = "returned"
    /\ normPc' = "idle"
    /\ pcm' = <<>>
    /\ normOut' = [kind |-> "none"]
    /\ UNCHANGED nonNorm

NextNorm ==
    \/ \E buf \in Buffers : SynthReturns(buf)
    \/ \E r \in UNION {[1..n -> {-1, 0, 1}] : n \in 0..MaxBuf} : Normalize(r)
    \/ NormReturn

\* |x| compared with 0.99, the rounding steps left out
AbsAtMostLimit(x) == Abs(x.num) <= PeakLimit * x.den
AbsIsLimit(x) == Abs(x.num) = PeakLimit * x.den

\* |x| is above 0.99 by a rounding step
RoundedAboveLimit(x) ==
    /\ AbsIsLimit(x)
    /\ (x.num > 0 /\ x.ulp > 0) \/ (x.num < 0 /\ x.ulp < 0)

\* x is s times 0.99/peak, the rounding steps left out
IsScaledBy(x, s, peak) == x.num * peak = s * PeakLimit * x.den

NormReturnedBuffer == normPc = "returned" /\ normOut.kind = "ok"

\* C9 as stated: for every non-empty buffer, a peak above 0.99 has every
\* sample multiplied by the same factor 0.99/peak and the new peak equal to
\* 0.99; a peak of at most 0.99 leaves the buffer unmodified; so the peak of
\* every buffer handed on is at most 0.99.
C9_NormalizedExactly ==
    NormReturnedBuffer =>
        /\ Peak(pcm) > PeakLimit =>
              /\ \A i \in DOMAIN pcm :
                    /\ IsScaledBy(normOut.buf[i], pcm[i], Peak(pcm))
                    /\ normOut.buf[i].ulp = 0
              /\ \E i \in DOMAIN pcm : AbsIsLimit(normOut.buf[i])
        /\ Peak(pcm) <= PeakLimit =>
              \A i \in DOMAIN pcm : normOut.buf[i] = Exact(pcm[i])
        /\ \A i \in DOMAIN pcm :
              /\ AbsAtMostLimit(normOut.buf[i])
              /\ ~RoundedAboveLimit(normOut.buf[i])

\* C9 with the rounding of float32: a peak above 0.99 has every sample
\* multiplied by the same factor 0.99/peak, each product within one rounding
\* step of the exact one, so the new peak is 0.99 to within one rounding step;
\* a peak of at most 0.99 leaves the buffer unmodified; the peak of every
\* buffer handed on is at most 0.99 plus one rounding step; an empty buffer is
\* an error.
C9_NormalizedUpToRounding ==
    /\ NormReturnedBuffer =>
        /\ pcm # <<>>
        /\ DOMAIN normOut.buf = DOMAIN pcm
        /\ Peak(pcm) > PeakLimit =>
              /\ \A i \in DOMAIN pcm :
                    /\ IsScaledBy(normOut.buf[i], pcm[i], Peak(pcm))
                    /\ normOut.buf[i].ulp \in {-1, 0, 1}
              /\ \E i \in DOMAIN pcm : AbsIsLimit(normOut.buf[i])
        /\ Peak(pcm) <= PeakLimit =>
              \A i \in DOMAIN pcm : normOut.buf[i] = Exact(pcm[i])
        /\ \A i \in DOMAIN pcm : AbsAtMostLimit(normOut.buf[i])
    /\ (normPc = "returned" /\ pcm = <<>>) => normOut.kind = "EmptyAudio"

C9_Witness ==
    /\ NormReturnedBuffer
    /\ Len(pcm) = 2
    /\ Peak(pcm) = 150
    /\ \E i \in DOMAIN pcm : RoundedAboveLimit(normOut.buf[i])
    /\ \E i \in DOMAIN pcm : pcm[i] = 50

-----------------------------------------------------------------------------
(* The window (app.py): the speak button, the test button, the busy ring *)

MaxLog == 3

\* line 177: the text the test button puts in the field, shortened
TestMessage == <<"H", "e", "l", "l", "o", ".">>

InitUi ==
    /\ text_input = <<>>
    /\ speak_disabled = FALSE
    /\ busy_visible = FALSE
    /\ status_text = ""
    /\ snack_open = FALSE
    /\ log_len = 0
    /\ uiTasks = <<>>

\* The user edits the text field
EditText(t) ==
    /\ text_input' = t
    /\ UNCHANGED <<speak_disabled, busy_visible, status_text, snack_open, log_len,
                   uiTasks, nonUi>>

\* lines 165-174, the body of on_speak_click, with `text` the value of the
\* field: blank text shows an error and returns; any other text disables the
\* speak button, shows the ring, adds a log line and schedules speak_task
SpeakClickBody(text) ==
    IF Strip(text) = <<>>
      THEN /\ status_text' = "blank_text"
           /\ snack_open' = TRUE
           /\ UNCHANGED <<speak_disabled, busy_visible, log_len, uiTasks>>
      ELSE /\ log_len < MaxLog
           /\ status_text' = ""
           /\ speak_disabled' = TRUE
           /\ busy_visible' = TRUE
           /\ log_len' = log_len + 1
           /\ uiTasks' = Append(uiTasks, "scheduled")
           /\ UNCHANGED snack_open

\* line 181: a click on the speak button; a disabled button takes no click
on_speak_click ==
    /\ ~speak_disabled
    /\ SpeakClickBody(text_input)
    /\ UNCHANGED <<text_input, nonUi>>

\* lines 176-179 and 227: a click on the test button, which is never disabled;
\* it fills the field and calls on_speak_click itself
on_test_click ==
    /\ text_input' = TestMessage
    /\ SpeakClickBody(TestMessage)
    /\ UNCHANGED nonUi

\* line 158: the scheduled coroutine starts service.speak on a worker thread
TaskStart(i) ==
    /\ i \in DOMAIN uiTasks
    /\ uiTasks[i] = "scheduled"
    /\ uiTasks' = [uiTasks EXCEPT ![i] = "speaking"]
    /\ UNCHANGED <<text_input, speak_disabled, busy_visible, status_text, snack_open,
                   log_len, nonUi>>

RemoveAt(s, i) == SubSeq(s, 1, i - 1) \o SubSeq(s, i + 1, Len(s))

\* lines 151-154 and 159-162: service.speak returns or raises; an exception is
\* shown, and finish_busy_state runs in the finally clause either way
TaskEnd(i, ok) ==
    /\ i \in DOMAIN uiTasks
    /\ uiTasks[i] = "speaking"
    /\ uiTasks' = RemoveAt(uiTasks, i)
    /\ IF ok
         THEN UNCHANGED <<status_text, snack_open>>
         ELSE /\ status_text' = "speak_failed"
              /\ snack_open' = TRUE
    /\ busy_visible' = FALSE
    /\ speak_disabled' = FALSE
    /\ UNCHANGED <<text_input, log_len, nonUi>>

TaskIds == 1..MaxLog

NextUi ==
    \/ \E t \in Texts : EditText(t)
    \/ on_speak_click
    \/ on_test_click
    \/ \E i \in TaskIds : TaskStart(i)
    \/ \E i \in TaskIds, ok \in BOOLEAN : TaskEnd(i, ok)

\* C11: for any sequence of clicks on the speak and test buttons, the speak
\* button is disabled and the busy ring visible for as long as a speak request
\* started from the window is running, both are reset once it has ended, and
\* there are never two speak requests in flight.
C11_BusyWhileSpeaking ==
    /\ uiTasks # <<>> => (speak_disabled /\ busy_visible)
    /\ uiTasks = <<>> => (~speak_disabled /\ ~busy_visible)
    /\ Len(uiTasks) <= 1

-----------------------------------------------------------------------------
(* Properties of speak() *)

Synthesizing(c) == pc[c] = "synth"

HasOpenStream(c) == \E i \in DOMAIN threads[c] : threads[c][i].st = "open"

\* Between the start of synthesis and the end of playback
InSequence(c) ==
    pc[c] \in {"synth", "check_vb", "lock", "start_vb", "mon_check", "start_mon",
               "join", "report"}

\* Between taking the play lock and releasing it
InPlayback(c) == pc[c] \in {"start_vb", "mon_check", "start_mon", "join", "report"}

Failed(c) == {i \in DOMAIN threads[c] : threads[c][i].err # "None"}

\* C1 as stated: while one call is anywhere between starting its synthesis and
\* finishing its playback, no other call is synthesizing or has a stream open.
C1_WholeSpeakSerialized ==
    \A c1, c2 \in Callers :
        (c1 # c2 /\ InSequence(c1)) => ~(Synthesizing(c2) \/ HasOpenStream(c2))

\* C1 amended: at most one call is in its playback sequence (lock held, runners
\* started or running, streams open); the runners and streams of a call exist
\* only while it holds the lock.  Synthesis is not covered by the lock.
C1_PlaybackSerialized ==
    /\ \A c1, c2 \in Callers : (InPlayback(c1) /\ InPlayback(c2)) => c1 = c2
    /\ \A c \in Callers : threads[c] # <<>> => (InPlayback(c) /\ play_lock = Some(c))

C1_Witness ==
    \E c1, c2 \in Callers : c1 # c2 /\ HasOpenStream(c1) /\ pc[c2] = "lock"

\* C2 as stated: a speak() entered with the primary device unset ends with the
\* no-device error, for any text, and starts no playback.
C2_UnsetAlwaysNoDevice ==
    (unsetAtCall /\ pc[1] # "idle") =>
        /\ threads[1] = <<>>
        /\ ~InPlayback(1)
        /\ pc[1] = "done" => outcome[1] = "NoDevice"

\* C2 amended: no playback is started before the device check; a call that ends
\* before or at the check ends with an error and without a playback, and that
\* error is the no-device error exactly when the call got as far as the check
\* (synthesis gave audio); a check that finds the device unset ends the call.
C2_UnsetAtCheckFails ==
    /\ [](pc[1] \in {"idle", "synth", "check_vb", "lock"} => threads[1] = <<>>)
    /\ [][ /\ (pc[1] \in {"idle", "synth", "check_vb"} /\ pc'[1] = "done") =>
               /\ threads'[1] = <<>>
               /\ play_lock' = None
               /\ outcome'[1] \in {"EmptyAudio", "SynthFailed", "NoDevice"}
               /\ outcome'[1] = "NoDevice" <=> pc[1] = "check_vb"
           /\ (pc[1] = "check_vb" /\ pc'[1] # "check_vb" /\ device_vb = None) =>
               pc'[1] = "done" ]_vars

C2_Witness == unsetAtCall /\ pc[1] = "done" /\ outcome[1] = "NoDevice"

\* The errors collected are exactly the failed playbacks, device and message each.
ErrorsMatch(c) ==
    /\ Len(errors[c]) = Cardinality(Failed(c))
    /\ \A i \in Failed(c) :
          \E k \in DOMAIN errors[c] : errors[c][k] = <<threads[c][i].dev, threads[c][i].err>>
    /\ \A k \in DOMAIN errors[c] :
          \E i \in Failed(c) : errors[c][k] = <<threads[c][i].dev, threads[c][i].err>>

\* C3: a failed playback does not end the call by itself; after the joins the
\* collected errors are exactly the failed playbacks, and speak() raises the
\* playback error if and only if there is one.
C3_FailuresAggregated ==
    /\ [](\A c \in Callers : pc[c] = "report" => ErrorsMatch(c))
    /\ [](\A c \in Callers : (InPlayback(c) /\ pc[c] # "report") =>
              (outcome[c] = "none" /\ errors[c] = <<>>))
    /\ [][\A c \in Callers : (pc[c] = "report" /\ pc'[c] = "done") =>
              outcome'[c] = IF Failed(c) # {} THEN "PlaybackFailed" ELSE "ok"]_vars

C3_Witness ==
    \E c \in Callers :
        /\ pc[c] = "report"
        /\ Len(threads[c]) = 2
        /\ threads[c][1].err = "None"
        /\ threads[c][2].err # "None"
        /\ threads[c][1].dev # threads[c][2].dev
        /\ errors[c] = <<(<<threads[c][2].dev, threads[c][2].err>>)>>

\* C4: every playback is started before speak() waits (two when the monitor
\* branch was taken, else one); a runner can always take its next step whatever
\* the other did; speak() gets past the joins only with every stream closed.
C4_BothPlayedAndJoined ==
    \A c \in Callers :
        /\ pc[c] \in {"join", "report"} =>
              Len(threads[c]) = IF monBranch[c] THEN 2 ELSE 1
        /\ pc[c] = "start_mon" => (monBranch[c] /\ Len(threads[c]) = 1)
        /\ pc[c] = "report" =>
              /\ \A i \in DOMAIN threads[c] : threads[c][i].st = "closed"
              /\ Len(results[c]) = Len(threads[c])
        /\ \A i \in DOMAIN threads[c] :
              /\ threads[c][i].st = "started" => ENABLED RunnerOpen(c, i, TRUE)
              /\ threads[c][i].st = "open" => ENABLED RunnerWrite(c, i, TRUE)
        /\ (pc[c] = "done" /\ outcome[c] \in {"ok", "PlaybackFailed"}) =>
              threads[c] = <<>>

C4_Witness ==
    \E c \in Callers :
        /\ pc[c] = "join"
        /\ Len(threads[c]) = 2
        /\ threads[c][1].err = "OpenErr"
        /\ threads[c][2].st = "open"

\* C10 as stated: every playback is started on a set device, and the primary
\* playback on the device that passed the check of line 92.
C10_PlaysOnCheckedDevice ==
    /\ [](\A c \in Callers : \A i \in DOMAIN threads[c] : threads[c][i].dev # None)
    /\ [][\A c \in Callers : (pc[c] = "start_vb" /\ pc'[c] = "mon_check") =>
              threads'[c][1].dev = vbChecked[c]]_vars

-----------------------------------------------------------------------------

\* The service constructed, nothing in progress
Init == InitSvc /\ InitCom /\ InitPar /\ InitSyn /\ InitBuilt /\ InitNorm /\ InitUi

Runners == 1..2

Next ==
    \/ \E d \in OptDevices : set_virtual_mic_device(d)
    \/ \E d \in OptDevices : set_monitor_device(d)
    \/ \E c \in Callers, text \in Texts : SpeakCall(c, text)
    \/ \E c \in Callers, out \in SynthOutcomes : SynthReturn(c, out)
    \/ \E c \in Callers : CheckDevice(c)
    \/ \E c \in Callers : AcquireLock(c)
    \/ \E c \in Callers : StartPrimary(c)
    \/ \E c \in Callers : CheckMonitor(c)
    \/ \E c \in Callers : StartMonitor(c)
    \/ \E c \in Callers, i \in Runners, ok \in BOOLEAN : RunnerOpen(c, i, ok)
    \/ \E c \in Callers, i \in Runners, ok \in BOOLEAN : RunnerWrite(c, i, ok)
    \/ \E c \in Callers : Join(c)
    \/ \E c \in Callers : Report(c)
    \/ \E c \in Callers : Return(c)

Spec == Init /\ [][Next]_vars

\* One tracked caller against the setters of the UI thread.
NextOne ==
    \/ \E d \in OptDevices : set_virtual_mic_device(d)
    \/ \E d \in OptDevices : set_monitor_device(d)
    \/ \E text \in Texts : SpeakCallTracked(1, text)
    \/ \E out \in SynthOutcomes : SynthReturn(1, out)
    \/ CheckDevice(1)
    \/ AcquireLock(1)
    \/ StartPrimary(1)
    \/ CheckMonitor(1)
    \/ StartMonitor(1)
    \/ \E i \in Runners, ok \in BOOLEAN : RunnerOpen(1, i, ok)
    \/ \E i \in Runners, ok \in BOOLEAN : RunnerWrite(1, i, ok)
    \/ Join(1)
    \/ Report(1)
    \/ Return(1)

SpecOne == Init /\ [][NextOne]_vars

\* The service at rest, no device chosen
SvcIdle == InitSvc /\ device_vb = None

InitIdle == SvcIdle /\ InitCom /\ InitPar /\ InitSyn /\ InitBuilt /\ InitNorm /\ InitUi

\* Nested protected regions on several threads
SpecCom == InitIdle /\ [][NextCom]_vars

\* The setters of rate and volume against synth_pcm16 calls
SpecSynth == InitIdle /\ [][NextSyn]_vars

\* Construction over the device tables and system defaults
InitConstruct ==
    SvcIdle /\ InitCom /\ InitPar /\ InitSyn /\ InitPick /\ InitNorm /\ InitUi

SpecPick == InitConstruct /\ [][NextPick]_vars

\* synthesize() over the buffers the synthesizer may return
SpecNorm == InitIdle /\ [][NextNorm]_vars

\* The window: edits, clicks on both buttons, and the speak tasks they start
SpecUi == InitIdle /\ [][NextUi]_vars

====
